---- MODULE Spec2Model ----
(***************************************************************************)
(* A model of the tradesbot package: the ticker extractor and the          *)
(* aggregation engine of summarizer_io.py, the Gemini adapter and the      *)
(* enhanced renderers of gemini_analyzer.py, the process_and_save          *)
(* pipeline, the day-partitioned store of storage.py, the ingestion run    *)
(* of main.py, config.py, discord_client.py and uploader.py, and the       *)
(* document sink of notion_writer.py.                                      *)
(*                                                                         *)
(* Text is a sequence of one-character strings.  An ordered mapping (a     *)
(* Python dict, which keeps insertion order) is a sequence of <<key,       *)
(* value>> pairs with distinct keys.  Python's None is the empty tuple     *)
(* where a record or a mapping is expected, and a falsy timestamp is 0.    *)
(***************************************************************************)
EXTENDS Integers, Sequences, FiniteSets, TLC

VARIABLES
    text,       \* extractor: the text handed to extract_tickers
    found,      \* extractor: what extract_tickers returned for text
    gcs,        \* the bucket's partitions of the day: channel id -> records
    messages,   \* load_day_messages' result of the current run
    analysis,   \* analyze_messages' result of the current run
    prev,       \* the aggregation result of the previous run over the same day
    apc,        \* position of the analysis pass
    raw,        \* normalizer: the text handed to _clean
    cleaned,    \* normalizer: what _clean returned for raw
    dirs,       \* store: the day directories under BASE
    files,      \* store: <<day, channel id>> -> the lines of the partition file
    last_m,     \* store: the message of the latest append_message call
    appends,    \* store: the number of append_message calls so far
    use_ai,     \* process_and_save: its use_ai argument
    oracle,     \* process_and_save: what the Gemini call of this run did
    ai_analysis,  \* process_and_save: its ai_analysis local
    summary_text, \* process_and_save: the summary printed to the console
    objects,    \* the bucket's summaries/<date>.* objects: extension -> content
    ret,        \* process_and_save: its return value once it has returned
    exc,        \* process_and_save: where the exception its handler caught came from
    runs,       \* publisher: the number of process_and_save calls started so far
    last_save,  \* publisher: the latest save_summary_to_gcs call
    writers,    \* concurrent store: each writer's append_message call in progress
    disk,       \* concurrent store: <<day, channel id>> -> what the write calls left
    env,        \* ingestion: which environment variables are set
    fpc,        \* ingestion: position of main and of fetch_history_once
    todo,       \* ingestion: the channel ids the loop has still to visit
    fetched,    \* ingestion: the channel ids fetch_channel was called for
    dumped,     \* ingestion: the channel ids whose history was read to its end
    closed,     \* ingestion: client.close() has been awaited
    network,    \* ingestion: the kinds of network call made so far
    up_call,    \* ingestion: the upload_all_days call of the run
    blobs,      \* the bucket's partition objects: a set of <<day, channel id>>
    pages,      \* document sink: the pages of the database, oldest first
    ncalls,     \* document sink: the number of create_summary_page calls so far
    nraised,    \* document sink: the number of those calls that raised
    nlast,      \* document sink: the latest create_summary_page call
    blocks      \* document sink: what _build_content_blocks returned

extractorVars == <<text, found>>
analysisVars == <<gcs, messages, analysis, prev, apc>>
cleanVars == <<raw, cleaned>>
storeVars == <<dirs, files, last_m, appends>>
processVars == <<use_ai, oracle, ai_analysis, summary_text, objects, ret, exc>>
publishVars == <<runs, last_save>>
concVars == <<writers, disk>>
ingestVars == <<env, fpc, todo, fetched, dumped, closed, network, up_call, blobs>>
notionVars == <<pages, ncalls, nraised, nlast, blocks>>
sinkVars == <<concVars, ingestVars, notionVars>>

vars == <<text, found, gcs, messages, analysis, prev, apc, raw, cleaned,
          dirs, files, last_m, appends,
          use_ai, oracle, ai_analysis, summary_text, objects, ret, exc,
          runs, last_save, writers, disk,
          env, fpc, todo, fetched, dumped, closed, network, up_call, blobs,
          pages, ncalls, nraised, nlast, blocks>>

-----------------------------------------------------------------------------
(* Bounds of the model *)

MaxTextLen == 7     \* longest text handed to extract_tickers
MaxMsgs == 2        \* most records held by the day's partitions together
MaxRawLen == 5      \* longest text handed to _clean
MaxAppends == 2     \* most append_message calls of a run
MaxDayMsgs == 1     \* most records of the day process_and_save is run on

(* Program constants *)

MaxTickerLen == 5   \* {1,5} of TICKER_PATTERN
ChannelTopN == 10   \* [:10] of the per-channel ranking

-----------------------------------------------------------------------------
(* Generic helpers *)

None == <<>>

MaxOf(S) == CHOOSE x \in S : \A y \in S : y <= x
MinOf(S) == CHOOSE x \in S : \A y \in S : x <= y

Range(s) == {s[i] : i \in 1..Len(s)}

Take(s, n) == SubSeq(s, 1, IF Len(s) < n THEN Len(s) ELSE n)

RECURSIVE Flatten(_)
Flatten(ss) == IF ss = <<>> THEN <<>> ELSE Head(ss) \o Flatten(Tail(ss))

RECURSIVE SumSeq(_)
SumSeq(s) == IF s = <<>> THEN 0 ELSE Head(s) + SumSeq(Tail(s))

SeqsUpTo(S, n) == UNION {[1..k -> S] : k \in 0..n}

(* Ordered mappings *)
Keys(d) == [i \in 1..Len(d) |-> d[i][1]]
Values(d) == [i \in 1..Len(d) |-> d[i][2]]
HasKey(d, k) == \E i \in 1..Len(d) : d[i][1] = k
IndexOf(d, k) == CHOOSE i \in 1..Len(d) : d[i][1] = k
Get(d, k, default) == IF HasKey(d, k) THEN d[IndexOf(d, k)][2] ELSE default
Put(d, k, v) ==
    IF HasKey(d, k) THEN [d EXCEPT ![IndexOf(d, k)] = <<k, v>>]
    ELSE Append(d, <<k, v>>)
AsSet(d) == Range(d)

-----------------------------------------------------------------------------
(* Characters *)

Upper == {"A", "B"}                 \* [A-Z]
WordChars == Upper \cup {"a", "1", "_"}   \* \w: letters, digits, underscore
Alphabet == {"$", "A", "B", "a", " "}

IsUpper(c) == c \in Upper
IsWord(c) == c \in WordChars

(* \b after a matched letter: the next character is no word character, or
   the text ends. *)
BoundaryAfter(t, j) == j = Len(t) \/ ~IsWord(t[j + 1])

(* One attempt of TICKER_PATTERN at position i: the length of the captured
   group, 0 when the pattern does not match there.  {1,5} is greedy and
   backs off one letter at a time until \b holds. *)
NoBoundaryMatchAt(t, i) ==
    IF t[i] # "$" THEN 0
    ELSE LET cands == {n \in 1..MaxTickerLen :
                          /\ i + n <= Len(t)
                          /\ \A k \in 1..n : IsUpper(t[i + k])}
         IN IF cands = {} THEN 0 ELSE MaxOf(cands)

MatchAt(t, i) ==
    IF t[i] # "$" THEN 0
    ELSE LET cands == {n \in 1..MaxTickerLen :
                          /\ i + n <= Len(t)
                          /\ \A k \in 1..n : IsUpper(t[i + k])
                          /\ BoundaryAfter(t, i + n)}
         IN IF cands = {} THEN 0 ELSE MaxOf(cands)

(* findall: scan left to right, matches do not overlap. *)
RECURSIVE FindAll(_, _)
FindAll(t, pos) ==
    IF pos > Len(t) THEN <<>>
    ELSE LET n == MatchAt(t, pos)
         IN IF n > 0
            THEN <<SubSeq(t, pos + 1, pos + n)>> \o FindAll(t, pos + n + 1)
            ELSE FindAll(t, pos + 1)

extract_tickers(t) == FindAll(t, 1)

-----------------------------------------------------------------------------
(* Records of the day *)

Channels == {"c1", "c2"}
Authors == {"u1", "u2"}
Timestamps == 0..2       \* msg.get('ts'): 0 is a missing or empty timestamp
Contents == {
    <<"$", "A">>,
    <<"$", "B", " ", "$", "A">>,
    <<"$", "a">> }

NameOf(c) == IF c = "c1" THEN "general" ELSE "trades"

RecordsOf(c) ==
    [channel_id : {c}, channel_name : {NameOf(c)}, author : Authors,
     ts : Timestamps, content : Contents]

(* f"{channel_name} ({channel_id})" *)
ChannelKey(msg) == <<msg.channel_name, msg.channel_id>>

-----------------------------------------------------------------------------
(* analyze_messages *)

IncOverwrite(d, k) == Put(d, k, 1)

(* counter[k] += 1 on a defaultdict(int) *)
Inc(d, k) == Put(d, k, Get(d, k, 0) + 1)

RECURSIVE IncAll(_, _)
IncAll(d, ks) == IF ks = <<>> THEN d ELSE IncAll(Inc(d, Head(ks)), Tail(ks))

NewChannelStats == [messages |-> 0, authors |-> {}, tickers |-> <<>>]

EmptyAcc ==
    [ticker_counts |-> <<>>, channel_stats |-> <<>>, all_authors |-> {},
     timestamps |-> <<>>]

(* The body of the loop over the messages. *)
Accumulate(acc, msg) ==
    LET key == ChannelKey(msg)
        tickers == extract_tickers(msg.content)
        old == Get(acc.channel_stats, key, NewChannelStats)
        new == [messages |-> old.messages + 1,
                authors |-> old.authors \cup {msg.author},
                tickers |-> IncAll(old.tickers, tickers)]
    IN [ticker_counts |-> IncAll(acc.ticker_counts, tickers),
        channel_stats |-> Put(acc.channel_stats, key, new),
        all_authors |-> acc.all_authors \cup {msg.author},
        timestamps |-> IF msg.ts # 0 THEN Append(acc.timestamps, msg.ts)
                       ELSE acc.timestamps]

RECURSIVE Fold(_, _)
Fold(acc, msgs) ==
    IF msgs = <<>> THEN acc ELSE Fold(Accumulate(acc, Head(msgs)), Tail(msgs))

(* sorted(items, key=count, reverse=True): stable, so items of equal count
   keep their order. *)
RECURSIVE InsertDesc(_, _)
InsertDesc(sorted, item) ==
    IF sorted = <<>> THEN <<item>>
    ELSE IF Head(sorted)[2] >= item[2]
         THEN <<Head(sorted)>> \o InsertDesc(Tail(sorted), item)
         ELSE <<item>> \o sorted

RECURSIVE InsertDescUnstable(_, _)
InsertDescUnstable(sorted, item) ==
    IF sorted = <<>> THEN <<item>>
    ELSE IF Head(sorted)[2] > item[2]
         THEN <<Head(sorted)>> \o InsertDescUnstable(Tail(sorted), item)
         ELSE <<item>> \o sorted

RECURSIVE SortFrom(_, _)
SortFrom(sorted, items) ==
    IF items = <<>> THEN sorted
    ELSE SortFrom(InsertDesc(sorted, Head(items)), Tail(items))

RECURSIVE SortFromUnstable(_, _)
SortFromUnstable(sorted, items) ==
    IF items = <<>> THEN sorted
    ELSE SortFromUnstable(InsertDescUnstable(sorted, Head(items)), Tail(items))

SortedDescReversed(items) == SortFromUnstable(<<>>, items)

SortedDesc(items) == SortFrom(<<>>, items)

ChannelSummaryPerMessage(stats) ==
    [messages |-> stats.messages,
     unique_authors |-> stats.messages,
     top_tickers |-> Take(SortedDesc(stats.tickers), ChannelTopN)]

ChannelSummary(stats) ==
    [messages |-> stats.messages,
     unique_authors |-> Cardinality(stats.authors),
     top_tickers |-> Take(SortedDesc(stats.tickers), ChannelTopN)]

DateRangeFirstLast(timestamps) ==
    IF timestamps = <<>> THEN None
    ELSE [start |-> timestamps[1], end |-> timestamps[Len(timestamps)]]

DateRange(timestamps) ==
    IF timestamps = <<>> THEN None
    ELSE [start |-> MinOf(Range(timestamps)), end |-> MaxOf(Range(timestamps))]

EmptyAnalysisWithRange ==
    [total_messages |-> 0, channels |-> <<>>, top_tickers |-> <<>>,
     unique_authors |-> 0, date_range |-> [start |-> 0, end |-> 0]]

EmptyAnalysis ==
    [total_messages |-> 0, channels |-> <<>>, top_tickers |-> <<>>,
     unique_authors |-> 0, date_range |-> None]

analyze_messages(msgs) ==
    IF msgs = <<>> THEN EmptyAnalysis
    ELSE LET acc == Fold(EmptyAcc, msgs)
         IN [total_messages |-> Len(msgs),
             channels |-> [i \in 1..Len(acc.channel_stats) |->
                             <<acc.channel_stats[i][1],
                               ChannelSummary(acc.channel_stats[i][2])>>],
             top_tickers |-> SortedDesc(acc.ticker_counts),
             unique_authors |-> Cardinality(acc.all_authors),
             date_range |-> DateRange(acc.timestamps)]

-----------------------------------------------------------------------------
(* load_day_messages: the partitions of the date in the order list_blobs
   returns them, each partition's records in file order. *)

Orders(S) ==
    {p \in [1..Cardinality(S) -> S] : \A i, j \in 1..Cardinality(S) :
                                         p[i] = p[j] => i = j}

LoadLastOnly(bucket, order) == bucket[order[Len(order)]]

Load(bucket, order) == Flatten([i \in 1..Len(order) |-> bucket[order[i]]])

(* The days the bucket can hold: every partition a sequence of records of
   its channel, MaxMsgs records at most in all. *)
DaysUpTo(n) ==
    UNION {{[c \in Channels |-> IF c = "c1" THEN s1 ELSE s2] :
               s2 \in SeqsUpTo(RecordsOf("c2"), n - Len(s1))} :
           s1 \in SeqsUpTo(RecordsOf("c1"), n)}

Days == DaysUpTo(MaxMsgs)

-----------------------------------------------------------------------------
(* storage.py: the normalizer *)

Emoji == {"emoji"}                  \* one code point of U+1F300..U+1FAFF
Whitespace == {" ", "\n"}           \* \s
RawAlphabet == {"x", "bt", " ", "\n", "emoji"}   \* "bt" is the backtick

RECURSIVE Remove(_, _)
Remove(s, chars) ==
    IF s = <<>> THEN <<>>
    ELSE (IF Head(s) \in chars THEN <<>> ELSE <<Head(s)>>) \o Remove(Tail(s), chars)

(* s.replace of three backticks by nothing: left to right, occurrences do not overlap. *)
RECURSIVE RemoveFences(_)
RemoveFences(s) ==
    IF Len(s) >= 3 /\ s[1] = "bt" /\ s[2] = "bt" /\ s[3] = "bt"
    THEN RemoveFences(SubSeq(s, 4, Len(s)))
    ELSE IF s = <<>> THEN <<>>
    ELSE <<Head(s)>> \o RemoveFences(Tail(s))

(* WS_RE.sub(" ", s): every maximal run of whitespace becomes one space. *)
RECURSIVE Collapse(_)
Collapse(s) ==
    IF s = <<>> THEN <<>>
    ELSE IF Head(s) \in Whitespace
         THEN IF Len(s) >= 2 /\ s[2] \in Whitespace
              THEN Collapse(Tail(s))
              ELSE <<" ">> \o Collapse(Tail(s))
         ELSE <<Head(s)>> \o Collapse(Tail(s))

RECURSIVE LStrip(_)
LStrip(s) ==
    IF s # <<>> /\ Head(s) \in Whitespace THEN LStrip(Tail(s)) ELSE s

RECURSIVE RStrip(_)
RStrip(s) ==
    IF s # <<>> /\ s[Len(s)] \in Whitespace
    THEN RStrip(SubSeq(s, 1, Len(s) - 1)) ELSE s

Strip(s) == RStrip(LStrip(s))

_cleanWhitespaceFirst(s) ==
    Remove(RemoveFences(Remove(Strip(Collapse(s)), Emoji)), {"bt"})

_clean(s) ==
    Strip(Collapse(Remove(RemoveFences(Remove(s, Emoji)), {"bt"})))

-----------------------------------------------------------------------------
(* storage.py: the day-partitioned store *)

HoursPerDay == 24

StoreChannels == {"c1", "c2"}
WallDays == {1}
WallHours == {1, 22}
(* The zone of created_at, hours east of UTC; for a naive created_at, the
   zone of the system, which astimezone takes a naive time to be in. *)
UtcOffsets == {0 - 3, 0, 3}
PartitionDays == 0..2

(* The message texts a channel history delivers. *)
RawContents == {
    <<"x">>,
    <<"x", " ", "\n", "x">>,
    <<"emoji", "bt", "bt", "bt", " ">>,
    <<>> }

Messages ==
    [content : RawContents, channel : StoreChannels, author : {"u1"},
     created_at : [day : WallDays, hour : WallHours, offset : UtcOffsets]]

NoMessage == <<>>

(* ts_utc.astimezone(timezone.utc).date() *)
UtcDate(t) == (t.day * HoursPerDay + t.hour - t.offset) \div HoursPerDay

(* m.created_at.replace(tzinfo=timezone.utc): the wall clock is kept and
   labelled UTC. *)
ReplaceTzUtc(t) == [day |-> t.day, hour |-> t.hour, offset |-> 0]

(* _day_dir: the directory of the day, created when missing *)
_day_dir(t) == UtcDate(t)

NoFiles == [k \in PartitionDays \X StoreChannels |-> <<>>]

RecordOf(m) ==
    [ts |-> ReplaceTzUtc(m.created_at),
     channel_id |-> m.channel,
     channel_name |-> NameOf(m.channel),
     author |-> m.author,
     content |-> _clean(m.content)]

SkipNothing(m) == FALSE

(* if not content: return *)
SkipMessage(m) == _clean(m.content) = <<>>

WriteTruncating(lines, rec) == <<rec>>

(* out.open("a") and f.write of one line *)
WriteLine(lines, rec) == Append(lines, rec)

(* The partition files after append_message(m) has written its record. *)
FilesAfter(fs, m) ==
    [fs EXCEPT ![<<_day_dir(m.created_at), m.channel>>] = WriteLine(@, RecordOf(m))]

append_message(m) ==
    /\ appends < MaxAppends
    /\ appends' = appends + 1
    /\ last_m' = m
    /\ IF SkipMessage(m)
       THEN UNCHANGED <<dirs, files>>
       ELSE /\ dirs' = dirs \cup {_day_dir(m.created_at)}
            /\ files' = FilesAfter(files, m)
    /\ UNCHANGED <<extractorVars, analysisVars, cleanVars, processVars>>
    /\ UNCHANGED <<publishVars, sinkVars>>

-----------------------------------------------------------------------------
(* storage.py: append_message called by several writers at once.  A call
   cleans the text, makes the directory, opens the file for appending and
   hands its line to the buffered file object; closing the file sends the
   buffer to the operating system, which appends what one write call
   carries at the end of the file in one piece. *)

Writers == {"w1", "w2"}
MaxWrites == 3      \* most append_message calls the writers begin together

ConcMessages ==
    {m \in Messages :
        /\ m.content \in {<<"x">>, <<>>}
        /\ m.author = "u1"
        /\ m.created_at \in {[day |-> 1, hour |-> 1, offset |-> 0],
                              [day |-> 1, hour |-> 22, offset |-> 0 - 3]}}

NoTarget == <<>>
IdleWriter == [pending |-> <<>>, target |-> NoTarget, calls |-> 0]
NoDisk == [k \in PartitionDays \X StoreChannels |-> <<>>]

WriteCallsSplit(rec) ==
    << [rec |-> rec, part |-> "head"], [rec |-> rec, part |-> "tail"] >>

(* The write calls that closing the file issues for f.write(line + "\n"):
   the text layer and the buffer pass the whole line down in one call. *)
WriteCalls(rec) == << [rec |-> rec, part |-> "line"] >>

Begun == writers["w1"].calls + writers["w2"].calls

(* append_message up to f.write: nothing has reached the file yet *)
BeginAppend(w, m) ==
    /\ writers[w].pending = <<>>
    /\ Begun < MaxWrites
    /\ writers' = [writers EXCEPT ![w] =
          IF SkipMessage(m)
          THEN [@ EXCEPT !.calls = @ + 1, !.target = NoTarget]
          ELSE [pending |-> WriteCalls(RecordOf(m)),
                target |-> <<_day_dir(m.created_at), m.channel>>,
                calls |-> @.calls + 1]]
    /\ UNCHANGED disk
    /\ UNCHANGED <<extractorVars, analysisVars, cleanVars, storeVars, processVars,
                   publishVars, ingestVars, notionVars>>

(* The exit of the with block: the next write call of the writer's buffer *)
WriteCall(w) ==
    /\ writers[w].pending # <<>>
    /\ disk' = [disk EXCEPT ![writers[w].target] = Append(@, Head(writers[w].pending))]
    /\ writers' = [writers EXCEPT ![w].pending = Tail(@)]
    /\ UNCHANGED <<extractorVars, analysisVars, cleanVars, storeVars, processVars,
                   publishVars, ingestVars, notionVars>>

-----------------------------------------------------------------------------
(* config.py, main.py, uploader.py and discord_client.py: the ingestion run *)

MaxHistory == 1     \* most messages the history of one configured channel delivers

Envs == [token : BOOLEAN, channels : BOOLEAN, bucket : BOOLEAN]
NoEnv == [token |-> FALSE, channels |-> FALSE, bucket |-> FALSE]

(* CHANNEL_IDS, when set *)
ChannelIds == <<"c1", "c2">>

(* load_settings: RuntimeError when the token or the channel list is missing *)
load_settings(e) ==
    IF ~e.token THEN [ok |-> FALSE, channel_ids |-> <<>>]
    ELSE IF ~e.channels THEN [ok |-> FALSE, channel_ids |-> <<>>]
    ELSE [ok |-> TRUE, channel_ids |-> ChannelIds]

(* What client.fetch_channel(cid) gives: a channel of some type, or one of
   the exceptions of discord.errors, or the OSError of a broken transport,
   which the HTTP layer of the library lets through. *)
ChannelTypes == {"TextChannel", "Thread", "ForumChannel", "VoiceChannel"}
FetchErrors == {"NotFound", "Forbidden", "HTTPException", "OSError"}
FetchOutcomes == ChannelTypes \cup FetchErrors

(* except NotFound / except Forbidden / except HTTPException *)
CatchesFetch(e) == e \in {"NotFound", "Forbidden", "HTTPException"}

(* The types fetch_history_once dumps; any other is logged and skipped. *)
Dumpable(t) == t \in {"TextChannel", "Thread", "ForumChannel"}

(* The messages the histories under a configured channel can deliver: its
   own for a text channel or a thread, those of its threads for a forum. *)
HistoryMessages(cid, t) ==
    IF t = "ForumChannel" THEN ConcMessages
    ELSE {m \in ConcMessages : m.channel = cid}

(* What reading the history under a channel does: the messages it delivers,
   and whether the iteration then raises instead of ending. *)
Histories(cid, t) ==
    IF Dumpable(t)
    THEN [msgs : SeqsUpTo(HistoryMessages(cid, t), MaxHistory), raises : BOOLEAN]
    ELSE {[msgs |-> <<>>, raises |-> FALSE]}

(* _print_msg for each message delivered: append_message on the store *)
RECURSIVE AppendAll(_, _)
AppendAll(fs, msgs) ==
    IF msgs = <<>> THEN fs
    ELSE AppendAll(IF SkipMessage(Head(msgs)) THEN fs ELSE FilesAfter(fs, Head(msgs)),
                   Tail(msgs))

DirsAfter(ds, msgs) ==
    ds \cup {_day_dir(msgs[i].created_at) :
                i \in {j \in 1..Len(msgs) : ~SkipMessage(msgs[j])}}

(* The *.jsonl files under the day directories of /tmp/ingest *)
PartitionFiles(fs) == {k \in DOMAIN fs : fs[k] # <<>>}

NoUpload ==
    [called |-> FALSE, client_ok |-> FALSE, base_exists |-> FALSE,
     raised |-> FALSE, cancelled |-> FALSE, ret |-> 0]

(* upload_all_days: whether it raised, what it returned, what it uploaded.
   The client is built before the buffer directory is looked at. *)
upload_all_days(bucket_set, client_ok, base_exists, fs, blob_ok) ==
    IF ~bucket_set
    THEN [raised |-> FALSE, ret |-> 0, uploaded |-> {}]
    ELSE IF ~client_ok
    THEN [raised |-> TRUE, ret |-> 0, uploaded |-> {}]
    ELSE IF ~base_exists
    THEN [raised |-> FALSE, ret |-> 0, uploaded |-> {}]
    ELSE IF PartitionFiles(fs) # {} /\ ~blob_ok
    THEN [raised |-> TRUE, ret |-> 0, uploaded |-> {}]
    ELSE [raised |-> FALSE, ret |-> Cardinality(PartitionFiles(fs)),
          uploaded |-> PartitionFiles(fs)]

CatchesNoUploadError(e) == FALSE

(* except Exception around the upload: a cancellation is no Exception *)
CatchesUpload(e) == e = "Exception"

(* main: load_settings, then the client is built and run; setup_hook
   schedules fetch_history_once, which waits for the client to be ready. *)
Main ==
    /\ fpc = "startup"
    /\ LET cfg == load_settings(env)
       IN IF ~cfg.ok
          THEN /\ fpc' = "config_error"
               /\ UNCHANGED <<todo, network>>
          ELSE /\ fpc' = "waiting"
               /\ todo' = cfg.channel_ids
               /\ network' = network \cup {"gateway"}
    /\ UNCHANGED <<env, fetched, dumped, closed, up_call, blobs>>
    /\ UNCHANGED <<extractorVars, analysisVars, cleanVars, storeVars, processVars,
                   publishVars, concVars, notionVars>>

(* await client.wait_until_ready(), which stands before the try *)
WaitUntilReady(outcome) ==
    /\ fpc = "waiting"
    /\ fpc' = IF outcome = "ready" THEN "loop" ELSE "raised"
    /\ UNCHANGED <<env, todo, fetched, dumped, closed, network, up_call, blobs>>
    /\ UNCHANGED <<extractorVars, analysisVars, cleanVars, storeVars, processVars,
                   publishVars, concVars, notionVars>>

(* One turn of the loop over channel_ids: fetch_channel, then the dump of
   the channel.  An exception no handler catches runs the finally block,
   which closes the client, and leaves fetch_history_once. *)
VisitChannel(fetch, h) ==
    /\ fpc = "loop"
    /\ todo # <<>>
    /\ h \in Histories(Head(todo), fetch)
    /\ fetched' = Append(fetched, Head(todo))
    /\ IF fetch \in FetchErrors
       THEN /\ network' = network \cup {"fetch_channel"}
            /\ UNCHANGED <<dumped, dirs, files>>
            /\ IF CatchesFetch(fetch)
               THEN todo' = Tail(todo) /\ UNCHANGED <<fpc, closed>>
               ELSE fpc' = "raised" /\ closed' = TRUE /\ UNCHANGED todo
       ELSE IF ~Dumpable(fetch)
       THEN /\ network' = network \cup {"fetch_channel"}
            /\ todo' = Tail(todo)
            /\ UNCHANGED <<dumped, dirs, files, fpc, closed>>
       ELSE /\ network' = network \cup {"fetch_channel", "history"}
            /\ files' = AppendAll(files, h.msgs)
            /\ dirs' = DirsAfter(dirs, h.msgs)
            /\ IF h.raises
               THEN fpc' = "raised" /\ closed' = TRUE /\ UNCHANGED <<todo, dumped>>
               ELSE /\ dumped' = Append(dumped, Head(todo))
                    /\ todo' = Tail(todo)
                    /\ UNCHANGED <<fpc, closed>>
    /\ UNCHANGED <<env, up_call, blobs, last_m, appends>>
    /\ UNCHANGED <<extractorVars, analysisVars, cleanVars, processVars,
                   publishVars, concVars, notionVars>>

(* After the loop: upload_all_days in a thread, its exceptions logged, then
   the finally block.  leftover says that /tmp/ingest is there although
   this run stored nothing. *)
Upload(client_ok, blob_ok, leftover, cancelled) ==
    /\ fpc = "loop"
    /\ todo = <<>>
    /\ LET base_exists == dirs # {} \/ leftover
           r == upload_all_days(env.bucket, client_ok, base_exists, files, blob_ok)
           e == IF cancelled THEN "CancelledError" ELSE "Exception"
       IN /\ up_call' = [called |-> TRUE, client_ok |-> client_ok,
                          base_exists |-> base_exists,
                          raised |-> r.raised, cancelled |-> cancelled,
                          ret |-> r.ret]
          /\ blobs' = blobs \cup r.uploaded
          /\ network' = IF r.uploaded # {} \/ (r.raised /\ client_ok)
                         THEN network \cup {"blob_store"} ELSE network
          /\ fpc' = IF (r.raised \/ cancelled) /\ ~CatchesUpload(e)
                     THEN "raised" ELSE "returned"
    /\ closed' = TRUE
    /\ UNCHANGED <<env, todo, fetched, dumped>>
    /\ UNCHANGED <<extractorVars, analysisVars, cleanVars, storeVars, processVars,
                   publishVars, concVars, notionVars>>

-----------------------------------------------------------------------------
(* notion_writer.py: the document sink *)

MaxNotionCalls == 3     \* most create_summary_page calls

Dates == {"2025-09-20", "2025-09-21"}

(* What the environment and the Notion API do during one call. *)
NotionOutcomes ==
    [db_set : BOOLEAN, token_set : BOOLEAN, query_ok : BOOLEAN,
     archive_ok : BOOLEAN, create_ok : BOOLEAN]

NoCall == [date |-> "", raised |-> FALSE, found |-> 0]

(* The pages databases.query answers for a date filter: archived pages are
   not among them. *)
Matches(ps, date) ==
    {i \in 1..Len(ps) : ps[i].date = date /\ ~ps[i].archived}

(* _find_existing_page: results[0], or None (0 here) when the query finds
   nothing or raises.  first is the page the API lists first. *)
_find_existing_page(ps, date, query_ok, first) ==
    IF ~query_ok THEN 0
    ELSE IF Matches(ps, date) = {} THEN 0
    ELSE first

(* client.pages.update(page_id, archived=True) *)
Archive(ps, i) == [ps EXCEPT ![i].archived = TRUE]

(* client.pages.create under the database *)
Create(ps, date) == Append(ps, [date |-> date, archived |-> FALSE])

(* create_summary_page: whether it raised, and the pages it leaves *)
create_summary_page(ps, date, o, first) ==
    IF ~o.db_set \/ ~o.token_set
    THEN [raised |-> TRUE, pages |-> ps, found |-> 0]
    ELSE LET existing == _find_existing_page(ps, date, o.query_ok, first)
         IN IF existing # 0
            THEN IF ~o.archive_ok
                 THEN [raised |-> TRUE, pages |-> ps, found |-> existing]
                 ELSE IF ~o.create_ok
                 THEN [raised |-> TRUE, pages |-> Archive(ps, existing),
                       found |-> existing]
                 ELSE [raised |-> FALSE,
                       pages |-> Create(Archive(ps, existing), date),
                       found |-> existing]
            ELSE IF ~o.create_ok
                 THEN [raised |-> TRUE, pages |-> ps, found |-> 0]
                 ELSE [raised |-> FALSE, pages |-> Create(ps, date), found |-> 0]

CreateSummaryPage(date, o, first) ==
    /\ ncalls < MaxNotionCalls
    /\ first \in (IF Matches(pages, date) = {} THEN {0} ELSE Matches(pages, date))
    /\ LET r == create_summary_page(pages, date, o, first)
       IN /\ pages' = r.pages
          /\ nraised' = IF r.raised THEN nraised + 1 ELSE nraised
          /\ nlast' = [date |-> date, raised |-> r.raised, found |-> r.found]
    /\ ncalls' = ncalls + 1
    /\ UNCHANGED blocks
    /\ UNCHANGED <<extractorVars, analysisVars, cleanVars, storeVars, processVars,
                   publishVars, concVars, ingestVars>>

-----------------------------------------------------------------------------
(* gemini_analyzer.py: the adapter *)

(* A value json.loads can return, or None.  A JSON object is a record of the
   keys the renderers read; a key the object lacks reads as the empty value,
   which is what .get() and the truth tests make of it. *)
NoneValue == [type |-> "none"]
ListValue == [type |-> "list", items |-> 1]

TickerDetail(sentiment, conviction, key_points, risks) ==
    [sentiment |-> sentiment, conviction |-> conviction,
     key_points |-> key_points, risks |-> risks]

OracleAnalysis ==
    [type |-> "dict",
     executive_summary |-> "summary",
     ticker_analysis |->
        << <<(<<"A">>), TickerDetail("bullish", "high",
                                     <<"p1", "p2", "p3">>, <<"r1", "r2", "r3">>)>> >>,
     key_themes |-> <<"theme">>,
     notable_insights |-> <<"insight">>,
     watchlist |-> << <<"B">>, <<"A">> >>,
     has_error |-> FALSE,
     error |-> ""]

(* The text of a response, as tokens: a code fence, the word json, a JSON
   document, anything else. *)
Fence == [tok |-> "fence"]
JsonWord == [tok |-> "json"]
Junk == [tok |-> "junk"]
Doc(v) == [tok |-> "doc", value |-> v]

Responses == {
    <<Doc(OracleAnalysis)>>,
    <<Fence, JsonWord, Doc(OracleAnalysis), Fence>>,
    <<Fence, Doc(OracleAnalysis), Fence>>,
    <<Doc(ListValue)>>,
    <<Doc(NoneValue)>>,
    <<Junk>>,
    <<Fence, JsonWord, Doc(OracleAnalysis)>>,
    <<>> }

(* str(e) of the exceptions the Vertex AI client can raise; an exception
   built without arguments has the empty text. *)
ClientErrorTexts == {"", "503 unavailable"}

InitErrorText == "GCP_PROJECT_ID not set and couldn't auto-detect"
DecodeErrorText == "Expecting value"

OracleOutcomes ==
    [kind : {"init_error"}, msg : {InitErrorText} \cup ClientErrorTexts,
     text : {<<>>}]
    \cup [kind : {"call_error"}, msg : ClientErrorTexts, text : {<<>>}]
    \cup [kind : {"response"}, msg : {""}, text : Responses]

NotCalled == [kind |-> "not_called", msg |-> "", text |-> <<>>]

StartsWith(t, p) == Len(t) >= Len(p) /\ SubSeq(t, 1, Len(p)) = p
EndsWith(t, p) == Len(t) >= Len(p) /\ SubSeq(t, Len(t) - Len(p) + 1, Len(t)) = p

OccursAt(t, p, i) == i + Len(p) - 1 <= Len(t) /\ SubSeq(t, i, i + Len(p) - 1) = p

(* t.split(p)[1] for a text that starts with p: what stands between the
   first p and the next one, or the end. *)
SplitSecond(t, p) ==
    LET rest == SubSeq(t, Len(p) + 1, Len(t))
        hits == {i \in 1..Len(rest) : OccursAt(rest, p, i)}
    IN IF hits = {} THEN rest ELSE SubSeq(rest, 1, MinOf(hits) - 1)

(* t.rsplit(p, 1)[0] for a text that ends with p *)
RSplitFirst(t, p) == SubSeq(t, 1, Len(t) - Len(p))

StripFences(t) ==
    LET t1 == IF StartsWith(t, <<Fence, JsonWord>>)
              THEN SplitSecond(t, <<Fence, JsonWord>>) ELSE t
        t2 == IF StartsWith(t1, <<Fence>>) THEN SplitSecond(t1, <<Fence>>) ELSE t1
    IN IF EndsWith(t2, <<Fence>>) THEN RSplitFirst(t2, <<Fence>>) ELSE t2

(* json.loads: one document and nothing else, or JSONDecodeError *)
JsonLoads(t) ==
    IF Len(t) = 1 /\ t[1].tok = "doc"
    THEN [ok |-> TRUE, value |-> t[1].value, msg |-> ""]
    ELSE [ok |-> FALSE, value |-> NoneValue, msg |-> DecodeErrorText]

FallbackWatchTop == 5

(* The value of the except branch: e is the exception, err its str(e). *)
Fallback(basic_stats, err) ==
    [type |-> "dict",
     executive_summary |-> "AI analysis unavailable - see basic statistics",
     ticker_analysis |-> <<>>,
     key_themes |-> <<>>,
     notable_insights |-> <<>>,
     watchlist |-> Take(Keys(basic_stats.top_tickers), FallbackWatchTop),
     has_error |-> TRUE,
     error |-> err]

analyze_with_gemini(msgs, basic_stats, o) ==
    IF o.kind # "response" THEN Fallback(basic_stats, o.msg)
    ELSE LET parsed == JsonLoads(StripFences(o.text))
         IN IF parsed.ok THEN parsed.value
            ELSE Fallback(basic_stats, parsed.msg)

-----------------------------------------------------------------------------
(* The renderers.  A rendering is the sequence of its lines, each line the
   tuple of what it shows; ok is FALSE when the renderer raises. *)

TextWatchTop == 5
TextTickerTop == 5
TextPointTop == 2
TextRiskTop == 2
TextChannelTickerTop == 3
MdWatchTop == 5
MdTickerTop == 5
MdChannelTickerTop == 5
BasicTickerTop == 10
BasicTextChannelTickerTop == 3
BasicMdChannelTickerTop == 5

Raised == [ok |-> FALSE, lines |-> <<>>]
Rendered(lines) == [ok |-> TRUE, lines |-> lines]

When(cond, lines) == IF cond THEN lines ELSE <<>>

(* f"${ticker}" *)
Dollars(items) == [i \in 1..Len(items) |-> <<"$">> \o items[i]]

TaggedReversed(tag, items) ==
    [i \in 1..Len(items) |-> <<tag, items[Len(items) + 1 - i]>>]

(* for x in items: lines.append(...) *)
Tagged(tag, items) == [i \in 1..Len(items) |-> <<tag, items[i]>>]
TaggedPairs(tag, d) == [i \in 1..Len(d) |-> <<tag, d[i][1], d[i][2]>>]

OverviewLinesTickerCount(basic_stats) ==
    << <<"total_messages", basic_stats.total_messages>>,
       <<"unique_authors", basic_stats.unique_authors>>,
       <<"channels", Len(basic_stats.top_tickers)>> >>
    \o When(basic_stats.date_range # None,
            << <<"time_range", basic_stats.date_range>> >>)

OverviewLines(basic_stats) ==
    << <<"total_messages", basic_stats.total_messages>>,
       <<"unique_authors", basic_stats.unique_authors>>,
       <<"channels", Len(basic_stats.channels)>> >>
    \o When(basic_stats.date_range # None,
            << <<"time_range", basic_stats.date_range>> >>)

(* The ticker detail of the plain-text rendering *)
TextTickerLines(basic_stats, entry) ==
    << <<"ticker", entry[1], Get(basic_stats.top_tickers, entry[1], 0),
         <<"upper", entry[2].sentiment>>, <<"upper", entry[2].conviction>> >> >>
    \o Tagged("point", Take(entry[2].key_points, TextPointTop))
    \o Tagged("risk", Take(entry[2].risks, TextRiskTop))

TextChannelLines(entry) ==
    << <<"channel", entry[1]>>,
       <<"channel_stats", entry[2].messages, entry[2].unique_authors>> >>
    \o When(entry[2].top_tickers # <<>>,
            << <<"channel_tickers",
                 Take(entry[2].top_tickers, TextChannelTickerTop)>> >>)

generate_enhanced_summary_text(basic_stats, ai, date) ==
    IF ai.type # "dict" THEN Raised     \* .get on None or on a list
    ELSE LET shown == Take(ai.ticker_analysis, TextTickerTop)
         IN Rendered(
              << <<"banner", date>> >>
              \o When(ai.executive_summary # "",
                      << <<"section", "EXECUTIVE SUMMARY">>,
                         <<"executive_summary", ai.executive_summary>> >>)
              \o << <<"section", "OVERVIEW">> >>
              \o OverviewLines(basic_stats)
              \o When(ai.watchlist # <<>>,
                      << <<"section", "TOP WATCHLIST">> >>
                      \o Tagged("watch", Dollars(Take(ai.watchlist, TextWatchTop))))
              \o When(ai.ticker_analysis # <<>>,
                      << <<"section", "TICKER ANALYSIS">> >>
                      \o Flatten([i \in 1..Len(shown) |->
                                    TextTickerLines(basic_stats, shown[i])]))
              \o When(ai.key_themes # <<>>,
                      << <<"section", "KEY THEMES">> >>
                      \o Tagged("theme", ai.key_themes))
              \o When(ai.notable_insights # <<>>,
                      << <<"section", "NOTABLE INSIGHTS">> >>
                      \o Tagged("insight", ai.notable_insights))
              \o When(basic_stats.channels # <<>>,
                      << <<"section", "CHANNEL BREAKDOWN">> >>
                      \o Flatten([i \in 1..Len(basic_stats.channels) |->
                                    TextChannelLines(basic_stats.channels[i])])))

(* The ticker detail of the Markdown rendering: every key point and risk *)
MdTickerLines(basic_stats, entry) ==
    << <<"ticker", entry[1], Get(basic_stats.top_tickers, entry[1], 0),
         <<"title", entry[2].sentiment>>, <<"title", entry[2].conviction>> >> >>
    \o Tagged("point", entry[2].key_points)
    \o Tagged("risk", entry[2].risks)

MdChannelLines(entry) ==
    << <<"channel", entry[1]>>,
       <<"channel_messages", entry[2].messages>>,
       <<"channel_authors", entry[2].unique_authors>> >>
    \o TaggedPairs("channel_ticker", Take(entry[2].top_tickers, MdChannelTickerTop))

MarkdownBody(basic_stats, ai, date) ==
    LET shown == Take(ai.ticker_analysis, MdTickerTop)
    IN << <<"banner", date>> >>
       \o When(ai.executive_summary # "",
               << <<"section", "Executive Summary">>,
                  <<"executive_summary", ai.executive_summary>> >>)
       \o << <<"section", "Overview">> >>
       \o OverviewLines(basic_stats)
       \o When(ai.watchlist # <<>>,
               << <<"section", "Top Watchlist">> >>
               \o Tagged("watch", Dollars(Take(ai.watchlist, MdWatchTop))))
       \o When(ai.ticker_analysis # <<>>,
               << <<"section", "Detailed Ticker Analysis">> >>
               \o Flatten([i \in 1..Len(shown) |->
                             MdTickerLines(basic_stats, shown[i])]))
       \o When(ai.key_themes # <<>>,
               << <<"section", "Key Themes">> >>
               \o Tagged("theme", ai.key_themes))
       \o When(ai.notable_insights # <<>>,
               << <<"section", "Notable Insights">> >>
               \o Tagged("insight", ai.notable_insights))
       \o When(basic_stats.channels # <<>>,
               << <<"section", "Channel Activity">> >>
               \o Flatten([i \in 1..Len(basic_stats.channels) |->
                             MdChannelLines(basic_stats.channels[i])]))

(* The footer reads basic_stats.get('date_range', {}).get('end', ...): the
   key is always there, so a date_range of None is what .get is called on. *)
generate_enhanced_markdown(basic_stats, ai, date) ==
    IF ai.type # "dict" THEN Raised
    ELSE IF basic_stats.date_range = None THEN Raised
    ELSE Rendered(MarkdownBody(basic_stats, ai, date)
                  \o << <<"footer", basic_stats.date_range.end>> >>)

BasicTopLines(basic_stats) ==
    When(basic_stats.top_tickers # <<>>,
         << <<"section", "TOP MENTIONED TICKERS">> >>
         \o TaggedPairs("top_ticker", Take(basic_stats.top_tickers, BasicTickerTop)))

BasicTextChannelLines(entry) ==
    << <<"channel", entry[1]>>,
       <<"channel_messages", entry[2].messages>>,
       <<"channel_authors", entry[2].unique_authors>> >>
    \o When(entry[2].top_tickers # <<>>,
            << <<"channel_tickers",
                 Take(entry[2].top_tickers, BasicTextChannelTickerTop)>> >>)

generate_summary_text(basic_stats, date) ==
    Rendered(<< <<"banner", date>> >>
             \o OverviewLines(basic_stats)
             \o BasicTopLines(basic_stats)
             \o When(basic_stats.channels # <<>>,
                     << <<"section", "CHANNEL BREAKDOWN">> >>
                     \o Flatten([i \in 1..Len(basic_stats.channels) |->
                                   BasicTextChannelLines(basic_stats.channels[i])])))

BasicMdChannelLines(entry) ==
    << <<"channel", entry[1]>>,
       <<"channel_messages", entry[2].messages>>,
       <<"channel_authors", entry[2].unique_authors>> >>
    \o TaggedPairs("channel_ticker",
                   Take(entry[2].top_tickers, BasicMdChannelTickerTop))

generate_markdown_summary(basic_stats, date) ==
    Rendered(<< <<"banner", date>> >>
             \o << <<"section", "Overview">> >>
             \o OverviewLines(basic_stats)
             \o BasicTopLines(basic_stats)
             \o When(basic_stats.channels # <<>>,
                     << <<"section", "Channel Activity">> >>
                     \o Flatten([i \in 1..Len(basic_stats.channels) |->
                                   BasicMdChannelLines(basic_stats.channels[i])]))
             \o << <<"footer", "utcnow">> >>)

-----------------------------------------------------------------------------
(* notion_writer.py: the blocks of the page body.  A block is written like
   a line of the other renderings: its kind of content and the values. *)

NotionWatchTop == 5
NotionTickerTop == 5
NotionPointTop == 3
NotionRiskTop == 3
NotionChannelTickerTop == 3

NotionTickerBlocks(basic_stats, entry) ==
    << <<"ticker_heading", <<"$">> \o entry[1]>>,
       <<"ticker", entry[1], Get(basic_stats.top_tickers, entry[1], 0),
         <<"upper", entry[2].sentiment>>, <<"upper", entry[2].conviction>> >> >>
    \o When(entry[2].key_points # <<>>,
            << <<"label", "Key Points:">> >>
            \o Tagged("point", Take(entry[2].key_points, NotionPointTop)))
    \o When(entry[2].risks # <<>>,
            << <<"label", "Risks:">> >>
            \o Tagged("risk", Take(entry[2].risks, NotionRiskTop)))

NotionChannelBlocks(entry) ==
    << <<"channel", entry[1]>>,
       <<"channel_messages", entry[2].messages>>,
       <<"channel_authors", entry[2].unique_authors>> >>
    \o When(entry[2].top_tickers # <<>>,
            << <<"channel_tickers",
                 Take(entry[2].top_tickers, NotionChannelTickerTop)>> >>)

(* The sections that need the AI result: every one is guarded by
   "ai_analysis and ai_analysis.get(...)". *)
NotionBlocks(basic_stats, ai, has_ai) ==
    LET shown == IF has_ai THEN Take(ai.ticker_analysis, NotionTickerTop) ELSE <<>>
    IN When(has_ai /\ ai.executive_summary # "",
            << <<"section", "Executive Summary">>,
               <<"executive_summary", ai.executive_summary>>,
               <<"divider">> >>)
       \o << <<"section", "Overview">> >>
       \o OverviewLines(basic_stats)
       \o When(has_ai /\ ai.watchlist # <<>>,
               << <<"section", "Top Watchlist">> >>
               \o Tagged("watch", Dollars(Take(ai.watchlist, NotionWatchTop))))
       \o When(has_ai /\ ai.ticker_analysis # <<>>,
               << <<"section", "Ticker Analysis">> >>
               \o Flatten([i \in 1..Len(shown) |->
                             NotionTickerBlocks(basic_stats, shown[i])]))
       \o When(has_ai /\ ai.key_themes # <<>>,
               << <<"section", "Key Themes">> >>
               \o Tagged("theme", ai.key_themes))
       \o When(has_ai /\ ai.notable_insights # <<>>,
               << <<"section", "Notable Insights">> >>
               \o Tagged("insight", ai.notable_insights))
       \o When(basic_stats.channels # <<>>,
               << <<"section", "Channel Breakdown">> >>
               \o Flatten([i \in 1..Len(basic_stats.channels) |->
                             NotionChannelBlocks(basic_stats.channels[i])]))

(* A list with items is truthy and has no .get; None is falsy and every
   AI section is left out. *)
_build_content_blocks(basic_stats, ai, date) ==
    IF ai.type = "list" THEN Raised
    ELSE IF ai.type = "none" THEN Rendered(NotionBlocks(basic_stats, ai, FALSE))
    ELSE Rendered(NotionBlocks(basic_stats, ai, TRUE))

-----------------------------------------------------------------------------
(* summarizer_io.py: process_and_save and save_summary_to_gcs *)

Date == "2025-09-20"

(* if ai_analysis: a dict with keys or a list with items *)
Truthy(ai) == ai.type \in {"dict", "list"}

(* ai_analysis or {} *)
JsonData(basic_stats, ai, now) ==
    [date |-> Date, generated_at |-> now, basic_stats |-> basic_stats,
     ai_insights |-> IF Truthy(ai) THEN ai ELSE [type |-> "dict"]]

MarkdownFor(basic_stats, ai) ==
    IF Truthy(ai) THEN generate_enhanced_markdown(basic_stats, ai, Date)
    ELSE generate_markdown_summary(basic_stats, Date)

TextFor(basic_stats, ai) ==
    IF Truthy(ai) THEN generate_enhanced_summary_text(basic_stats, ai, Date)
    ELSE generate_summary_text(basic_stats, Date)

Absent == <<>>
NoObjects == [ext \in {"json", "md", "txt"} |-> Absent]

upload_if_absent(objs, ext, content) ==
    IF objs[ext] = Absent THEN [objs EXCEPT ![ext] = content] ELSE objs

(* bucket.blob(f"summaries/{date}.{ext}").upload_from_string(content) *)
upload_from_string(objs, ext, content) == [objs EXCEPT ![ext] = content]

(* The save_summary_to_gcs call that starts now: its arguments, the clock,
   and the objects it finds. *)
SaveCall(done) ==
    [analysis |-> analysis, ai |-> ai_analysis, now |-> runs,
     before |-> objects, done |-> done]

(* return False from the handler of process_and_save *)
Fail(cause) ==
    /\ ret' = FALSE
    /\ exc' = cause
    /\ apc' = "returned"

(* load_day_messages, then the test for an empty day *)
PLoad(order, up) ==
    /\ apc = "start"
    /\ IF ~up
       THEN Fail("gcs") /\ UNCHANGED messages
       ELSE /\ messages' = Load(gcs, order)
            /\ IF messages' = <<>>
               THEN ret' = FALSE /\ apc' = "returned" /\ UNCHANGED exc
               ELSE apc' = "analyze" /\ UNCHANGED <<ret, exc>>
    /\ UNCHANGED <<extractorVars, cleanVars, storeVars, gcs, analysis, prev,
                   use_ai, oracle, ai_analysis, summary_text, objects>>
    /\ UNCHANGED <<publishVars, sinkVars>>

PAnalyze ==
    /\ apc = "analyze"
    /\ analysis' = analyze_messages(messages)
    /\ apc' = IF use_ai THEN "ai" ELSE "display"
    /\ UNCHANGED <<extractorVars, cleanVars, storeVars, gcs, messages, prev,
                   processVars>>
    /\ UNCHANGED <<publishVars, sinkVars>>

(* The inner try: analyze_with_gemini, then the enhanced summary on the
   console; when the renderer raises, the basic summary instead. *)
PAnalyzeAI(o) ==
    /\ apc = "ai"
    /\ oracle' = o
    /\ ai_analysis' = analyze_with_gemini(messages, analysis, o)
    /\ LET enhanced == generate_enhanced_summary_text(analysis, ai_analysis', Date)
       IN summary_text' = IF enhanced.ok THEN enhanced
                          ELSE generate_summary_text(analysis, Date)
    /\ apc' = "save_json"
    /\ UNCHANGED <<extractorVars, cleanVars, storeVars, gcs, messages, analysis, prev>>
    /\ UNCHANGED <<use_ai, objects, ret, exc>>
    /\ UNCHANGED <<publishVars, sinkVars>>

PDisplayBasic ==
    /\ apc = "display"
    /\ summary_text' = generate_summary_text(analysis, Date)
    /\ apc' = "save_json"
    /\ UNCHANGED <<extractorVars, cleanVars, storeVars, gcs, messages, analysis,
                   prev, use_ai, oracle, ai_analysis, objects, ret, exc>>
    /\ UNCHANGED <<publishVars, sinkVars>>

(* save_summary_to_gcs up to the upload of summaries/<date>.json *)
PSaveJson(up) ==
    /\ apc = "save_json"
    /\ IF ~up
       THEN /\ Fail("gcs")
            /\ last_save' = SaveCall("raised")
            /\ UNCHANGED objects
       ELSE /\ objects' = upload_from_string(objects, "json",
                                             JsonData(analysis, ai_analysis, runs))
            /\ last_save' = SaveCall("running")
            /\ apc' = "save_md"
            /\ UNCHANGED <<ret, exc>>
    /\ UNCHANGED <<extractorVars, cleanVars, storeVars, gcs, messages, analysis,
                   prev, use_ai, oracle, ai_analysis, summary_text>>
    /\ UNCHANGED <<runs, sinkVars>>

(* Both renderers run, then summaries/<date>.md is uploaded. *)
PSaveMarkdown(up) ==
    /\ apc = "save_md"
    /\ LET md == MarkdownFor(analysis, ai_analysis)
           txt == TextFor(analysis, ai_analysis)
       IN IF ~md.ok \/ ~txt.ok
          THEN /\ Fail("render")
               /\ last_save' = [last_save EXCEPT !.done = "raised"]
               /\ UNCHANGED objects
          ELSE IF ~up
          THEN /\ Fail("gcs")
               /\ last_save' = [last_save EXCEPT !.done = "raised"]
               /\ UNCHANGED objects
          ELSE /\ objects' = upload_from_string(objects, "md", md)
               /\ apc' = "save_txt"
               /\ UNCHANGED <<ret, exc, last_save>>
    /\ UNCHANGED <<extractorVars, cleanVars, storeVars, gcs, messages, analysis,
                   prev, use_ai, oracle, ai_analysis, summary_text>>
    /\ UNCHANGED <<runs, sinkVars>>

(* summaries/<date>.txt is uploaded and process_and_save returns True. *)
PSaveText(up) ==
    /\ apc = "save_txt"
    /\ IF ~up
       THEN /\ Fail("gcs")
            /\ last_save' = [last_save EXCEPT !.done = "raised"]
            /\ UNCHANGED objects
       ELSE /\ objects' = upload_from_string(objects, "txt",
                                             TextFor(analysis, ai_analysis))
            /\ last_save' = [last_save EXCEPT !.done = "returned"]
            /\ ret' = TRUE
            /\ apc' = "returned"
            /\ UNCHANGED exc
    /\ UNCHANGED <<extractorVars, cleanVars, storeVars, gcs, messages, analysis,
                   prev, use_ai, oracle, ai_analysis, summary_text>>
    /\ UNCHANGED <<runs, sinkVars>>

-----------------------------------------------------------------------------
(* The extractor on its own *)

EmptyDay == [c \in Channels |-> <<>>]

InitAnalysisIdle ==
    /\ gcs = EmptyDay
    /\ messages = <<>>
    /\ analysis = None
    /\ prev = None
    /\ apc = "idle"

InitExtractorIdle ==
    /\ text = <<>>
    /\ found = <<>>

InitCleanIdle ==
    /\ raw = <<>>
    /\ cleaned = <<>>

InitStoreIdle ==
    /\ dirs = {}
    /\ files = NoFiles
    /\ last_m = NoMessage
    /\ appends = 0

InitProcessIdle ==
    /\ use_ai = FALSE
    /\ oracle = NotCalled
    /\ ai_analysis = NoneValue
    /\ summary_text = Raised
    /\ objects = NoObjects
    /\ ret = "none"
    /\ exc = "none"

InitPublishIdle ==
    /\ runs = 0
    /\ last_save = None

InitConcIdle ==
    /\ writers = [w \in Writers |-> IdleWriter]
    /\ disk = NoDisk

InitIngestIdle ==
    /\ env = NoEnv
    /\ fpc = "off"
    /\ todo = <<>>
    /\ fetched = <<>>
    /\ dumped = <<>>
    /\ closed = FALSE
    /\ network = {}
    /\ up_call = NoUpload
    /\ blobs = {}

InitNotionIdle ==
    /\ pages = <<>>
    /\ ncalls = 0
    /\ nraised = 0
    /\ nlast = NoCall
    /\ blocks = None

InitSinksIdle ==
    /\ InitConcIdle
    /\ InitIngestIdle
    /\ InitNotionIdle

InitTickers ==
    /\ text = <<>>
    /\ found = extract_tickers(<<>>)
    /\ InitAnalysisIdle
    /\ InitCleanIdle
    /\ InitStoreIdle
    /\ InitProcessIdle
    /\ InitPublishIdle
    /\ InitSinksIdle

(* The caller hands a text one character longer to extract_tickers. *)
Extract(c) ==
    /\ Len(text) < MaxTextLen
    /\ text' = Append(text, c)
    /\ found' = extract_tickers(text')
    /\ UNCHANGED <<analysisVars, cleanVars, storeVars, processVars>>
    /\ UNCHANGED <<publishVars, sinkVars>>

NextTickers == \E c \in Alphabet : Extract(c)

SpecTickers == InitTickers /\ [][NextTickers]_vars

-----------------------------------------------------------------------------
(* The aggregation engine on every record sequence *)

AllRecords == UNION {RecordsOf(c) : c \in Channels}

InitAggregate ==
    /\ InitExtractorIdle
    /\ InitCleanIdle
    /\ InitStoreIdle
    /\ InitProcessIdle
    /\ gcs = EmptyDay
    /\ messages \in SeqsUpTo(AllRecords, MaxMsgs)
    /\ analysis = None
    /\ prev = None
    /\ apc = "loaded"
    /\ InitPublishIdle
    /\ InitSinksIdle

Analyze ==
    /\ apc = "loaded"
    /\ analysis' = analyze_messages(messages)
    /\ apc' = "analyzed"
    /\ UNCHANGED <<extractorVars, cleanVars, storeVars, processVars, gcs, messages, prev>>
    /\ UNCHANGED <<publishVars, sinkVars>>

NextAggregate == Analyze

SpecAggregate == InitAggregate /\ [][NextAggregate]_vars

-----------------------------------------------------------------------------
(* The analysis pass run twice over an unchanged day *)

InitRerun ==
    /\ InitExtractorIdle
    /\ InitCleanIdle
    /\ InitStoreIdle
    /\ InitProcessIdle
    /\ gcs \in Days
    /\ messages = <<>>
    /\ analysis = None
    /\ prev = None
    /\ apc = "idle"
    /\ InitPublishIdle
    /\ InitSinksIdle

(* load_day_messages; list_blobs decides the order of the partitions. *)
LoadDay(order) ==
    /\ apc = "idle"
    /\ messages' = Load(gcs, order)
    /\ apc' = "loaded"
    /\ UNCHANGED <<extractorVars, cleanVars, storeVars, processVars, gcs, analysis, prev>>
    /\ UNCHANGED <<publishVars, sinkVars>>

(* The pass is started again on the same day; the result of the first run
   is kept for comparison. *)
Rerun ==
    /\ apc = "analyzed"
    /\ prev = None
    /\ prev' = analysis
    /\ analysis' = None
    /\ messages' = <<>>
    /\ apc' = "idle"
    /\ UNCHANGED <<extractorVars, cleanVars, storeVars, processVars, gcs>>
    /\ UNCHANGED <<publishVars, sinkVars>>

NextRerun ==
    \/ \E order \in Orders(Channels) : LoadDay(order)
    \/ Analyze
    \/ Rerun

SpecRerun == InitRerun /\ [][NextRerun]_vars

-----------------------------------------------------------------------------
(* The normalizer on its own *)

InitClean ==
    /\ raw = <<>>
    /\ cleaned = _clean(<<>>)
    /\ InitExtractorIdle
    /\ InitAnalysisIdle
    /\ InitStoreIdle
    /\ InitProcessIdle
    /\ InitPublishIdle
    /\ InitSinksIdle

(* The caller hands a text one character longer to _clean. *)
Clean(c) ==
    /\ Len(raw) < MaxRawLen
    /\ raw' = Append(raw, c)
    /\ cleaned' = _clean(raw')
    /\ UNCHANGED <<extractorVars, analysisVars, storeVars, processVars>>
    /\ UNCHANGED <<publishVars, sinkVars>>

NextClean == \E c \in RawAlphabet : Clean(c)

SpecClean == InitClean /\ [][NextClean]_vars

-----------------------------------------------------------------------------
(* The store under a sequence of append_message calls *)

InitStore ==
    /\ InitExtractorIdle
    /\ InitAnalysisIdle
    /\ InitCleanIdle
    /\ InitStoreIdle
    /\ InitProcessIdle
    /\ InitPublishIdle
    /\ InitSinksIdle

NextStore == \E m \in Messages : append_message(m)

SpecStore == InitStore /\ [][NextStore]_vars

-----------------------------------------------------------------------------
(* The store under append_message calls of two writers at once *)

InitConcurrent ==
    /\ InitExtractorIdle
    /\ InitAnalysisIdle
    /\ InitCleanIdle
    /\ InitStoreIdle
    /\ InitProcessIdle
    /\ InitPublishIdle
    /\ InitSinksIdle

NextConcurrent ==
    \/ \E w \in Writers, m \in ConcMessages : BeginAppend(w, m)
    \/ \E w \in Writers : WriteCall(w)

SpecConcurrent == InitConcurrent /\ [][NextConcurrent]_vars

-----------------------------------------------------------------------------
(* One ingestion run, from main to the end of fetch_history_once *)

InitIngest ==
    /\ InitExtractorIdle
    /\ InitAnalysisIdle
    /\ InitCleanIdle
    /\ InitStoreIdle
    /\ InitProcessIdle
    /\ InitPublishIdle
    /\ InitConcIdle
    /\ InitNotionIdle
    /\ env \in Envs
    /\ fpc = "startup"
    /\ todo = <<>>
    /\ fetched = <<>>
    /\ dumped = <<>>
    /\ closed = FALSE
    /\ network = {}
    /\ up_call = NoUpload
    /\ blobs = {}

NextIngest ==
    \/ Main
    \/ \E outcome \in {"ready", "cancelled"} : WaitUntilReady(outcome)
    \/ \E fetch \in FetchOutcomes :
          \E h \in [msgs : SeqsUpTo(ConcMessages, MaxHistory), raises : BOOLEAN] :
              VisitChannel(fetch, h)
    \/ \E client_ok, blob_ok, leftover, cancelled \in BOOLEAN :
          Upload(client_ok, blob_ok, leftover, cancelled)

SpecIngest == InitIngest /\ [][NextIngest]_vars

-----------------------------------------------------------------------------
(* The document sink under a sequence of create_summary_page calls *)

InitNotion ==
    /\ InitExtractorIdle
    /\ InitAnalysisIdle
    /\ InitCleanIdle
    /\ InitStoreIdle
    /\ InitProcessIdle
    /\ InitPublishIdle
    /\ InitSinksIdle

NextNotion ==
    \E date \in Dates, o \in NotionOutcomes, first \in 0..MaxNotionCalls :
        CreateSummaryPage(date, o, first)

SpecNotion == InitNotion /\ [][NextNotion]_vars

-----------------------------------------------------------------------------
(* One call of process_and_save on a day of the bucket *)

InitProcess ==
    /\ InitExtractorIdle
    /\ InitCleanIdle
    /\ InitStoreIdle
    /\ gcs \in DaysUpTo(MaxDayMsgs)
    /\ messages = <<>>
    /\ analysis = None
    /\ prev = None
    /\ apc = "start"
    /\ use_ai \in BOOLEAN
    /\ oracle = NotCalled
    /\ ai_analysis = NoneValue
    /\ summary_text = Raised
    /\ objects = NoObjects
    /\ ret = "none"
    /\ exc = "none"
    /\ InitPublishIdle
    /\ InitSinksIdle

NextProcess ==
    \/ \E order \in Orders(Channels), up \in BOOLEAN : PLoad(order, up)
    \/ PAnalyze
    \/ \E o \in OracleOutcomes : PAnalyzeAI(o)
    \/ PDisplayBasic
    \/ \E up \in BOOLEAN : PSaveJson(up)
    \/ \E up \in BOOLEAN : PSaveMarkdown(up)
    \/ \E up \in BOOLEAN : PSaveText(up)

SpecProcess == InitProcess /\ [][NextProcess]_vars

-----------------------------------------------------------------------------
(* process_and_save called again and again on one day of the bucket *)

MaxRuns == 1        \* most times process_and_save is called again

(* A record with a timestamp and a record without one *)
PublishRecords ==
    {r \in RecordsOf("c1") : r.author = "u1" /\ r.content = <<"$", "A">>
                               /\ r.ts \in {0, 1}}

PublishDays == {[c \in Channels |-> IF c = "c1" THEN <<r>> ELSE <<>>] : r \in PublishRecords}

(* What the Gemini call does in these runs *)
PublishOutcomes ==
    {o \in OracleOutcomes :
        \/ o.kind # "response" /\ o.msg # ""
        \/ o.kind = "response" /\ o.text \in {<<Doc(OracleAnalysis)>>, <<Junk>>}}

InitPublish ==
    /\ InitExtractorIdle
    /\ InitCleanIdle
    /\ InitStoreIdle
    /\ InitSinksIdle
    /\ gcs \in PublishDays
    /\ messages = <<>>
    /\ analysis = None
    /\ prev = None
    /\ apc = "start"
    /\ use_ai \in BOOLEAN
    /\ oracle = NotCalled
    /\ ai_analysis = NoneValue
    /\ summary_text = Raised
    /\ objects = NoObjects
    /\ ret = "none"
    /\ exc = "none"
    /\ runs = 0
    /\ last_save = None

(* The job is started again for the same date; the bucket keeps its
   objects, the locals of the call are new. *)
ProcessAgain(ai) ==
    /\ apc = "returned"
    /\ runs < MaxRuns
    /\ runs' = runs + 1
    /\ use_ai' = ai
    /\ messages' = <<>>
    /\ analysis' = None
    /\ oracle' = NotCalled
    /\ ai_analysis' = NoneValue
    /\ summary_text' = Raised
    /\ ret' = "none"
    /\ exc' = "none"
    /\ apc' = "start"
    /\ UNCHANGED <<gcs, prev, objects, last_save>>
    /\ UNCHANGED <<extractorVars, cleanVars, storeVars, sinkVars>>

NextPublish ==
    \/ \E order \in Orders(Channels), up \in BOOLEAN : PLoad(order, up)
    \/ PAnalyze
    \/ \E o \in PublishOutcomes : PAnalyzeAI(o)
    \/ PDisplayBasic
    \/ \E up \in BOOLEAN : PSaveJson(up)
    \/ \E up \in BOOLEAN : PSaveMarkdown(up)
    \/ \E up \in BOOLEAN : PSaveText(up)
    \/ \E ai \in BOOLEAN : ProcessAgain(ai)

SpecPublish == InitPublish /\ [][NextPublish]_vars

-----------------------------------------------------------------------------
(* Every rendering of one aggregation result and one AI result *)

MaxRenderMsgs == 2      \* most records of the day that is rendered

RenderRecords ==
    {r \in AllRecords : r.ts \in {0, 1} /\ r.content # <<"$", "a">>}

(* An answer of the oracle with more entries than any rendering shows *)
LongAnalysis ==
    [OracleAnalysis EXCEPT
       !.watchlist = << <<"B">>, <<"A">>, <<"A", "B">>, <<"B", "A">>,
                        <<"A", "A">>, <<"B", "B">> >>,
       !.ticker_analysis =
          [i \in 1..6 |->
             << << <<"B">>, <<"A">>, <<"A", "B">>, <<"B", "A">>,
                   <<"A", "A">>, <<"B", "B">> >>[i],
                TickerDetail("bearish", "low", <<"p1">>, <<>>) >>]]

RenderOutcomes ==
    [kind : {"call_error"}, msg : {"503 unavailable"}, text : {<<>>}]
    \cup [kind : {"response"}, msg : {""},
          text : {<<Doc(OracleAnalysis)>>, <<Doc(LongAnalysis)>>, <<Doc(ListValue)>>,
                  <<Doc(NoneValue)>>, <<Junk>>}]

InitRender ==
    /\ InitExtractorIdle
    /\ InitCleanIdle
    /\ InitStoreIdle
    /\ InitPublishIdle
    /\ InitSinksIdle
    /\ gcs = EmptyDay
    /\ messages \in SeqsUpTo(RenderRecords, MaxRenderMsgs)
    /\ analysis = None
    /\ prev = None
    /\ apc = "render_start"
    /\ use_ai = TRUE
    /\ oracle = NotCalled
    /\ ai_analysis = NoneValue
    /\ summary_text = Raised
    /\ objects = NoObjects
    /\ ret = "none"
    /\ exc = "none"

(* analyze_messages, then analyze_with_gemini on its result and
   generate_enhanced_summary_text on both; summary_text keeps what the
   renderer gave, Raised when the except branch was taken. *)
RAnalyze(o) ==
    /\ apc = "render_start"
    /\ analysis' = analyze_messages(messages)
    /\ oracle' = o
    /\ ai_analysis' = analyze_with_gemini(messages, analysis', o)
    /\ summary_text' = generate_enhanced_summary_text(analysis', ai_analysis', Date)
    /\ apc' = "render_json"
    /\ UNCHANGED <<gcs, messages, prev, use_ai, objects, ret, exc>>
    /\ UNCHANGED <<extractorVars, cleanVars, storeVars, publishVars, sinkVars>>

(* The structured rendering *)
RenderJson ==
    /\ apc = "render_json"
    /\ objects' = [objects EXCEPT !["json"] = JsonData(analysis, ai_analysis, runs)]
    /\ apc' = "render_md"
    /\ UNCHANGED <<gcs, messages, analysis, prev>>
    /\ UNCHANGED <<use_ai, oracle, ai_analysis, summary_text, ret, exc>>
    /\ UNCHANGED <<extractorVars, cleanVars, storeVars, publishVars, sinkVars>>

(* The Markdown rendering save_summary_to_gcs chooses for the AI result *)
RenderMarkdown ==
    /\ apc = "render_md"
    /\ objects' = [objects EXCEPT !["md"] = MarkdownFor(analysis, ai_analysis)]
    /\ apc' = "render_txt"
    /\ UNCHANGED <<gcs, messages, analysis, prev>>
    /\ UNCHANGED <<use_ai, oracle, ai_analysis, summary_text, ret, exc>>
    /\ UNCHANGED <<extractorVars, cleanVars, storeVars, publishVars, sinkVars>>

(* The plain text save_summary_to_gcs chooses for the AI result *)
RenderText ==
    /\ apc = "render_txt"
    /\ objects' = [objects EXCEPT !["txt"] = TextFor(analysis, ai_analysis)]
    /\ apc' = "render_blocks"
    /\ UNCHANGED <<gcs, messages, analysis, prev>>
    /\ UNCHANGED <<use_ai, oracle, ai_analysis, summary_text, ret, exc>>
    /\ UNCHANGED <<extractorVars, cleanVars, storeVars, publishVars, sinkVars>>

RenderBlocks ==
    /\ apc = "render_blocks"
    /\ blocks' = _build_content_blocks(analysis, ai_analysis, Date)
    /\ apc' = "rendered"
    /\ UNCHANGED <<gcs, messages, analysis, prev>>
    /\ UNCHANGED <<pages, ncalls, nraised, nlast>>
    /\ UNCHANGED <<extractorVars, cleanVars, storeVars, processVars, publishVars,
                   concVars, ingestVars>>

NextRender ==
    \/ \E o \in RenderOutcomes : RAnalyze(o)
    \/ RenderJson
    \/ RenderMarkdown
    \/ RenderText
    \/ RenderBlocks

SpecRender == InitRender /\ [][NextRender]_vars

-----------------------------------------------------------------------------
(* Properties of the ticker extractor (SpecTickers) *)

(* The letters that follow position i without interruption. *)
RECURSIVE UpperRun(_, _)
UpperRun(t, i) ==
    IF i < Len(t) /\ IsUpper(t[i + 1]) THEN 1 + UpperRun(t, i + 1) ELSE 0

(* Position i starts a ticker: a $, then 1 to 5 uppercase letters, then
   no further word character. *)
TickerAt(t, i) ==
    /\ t[i] = "$"
    /\ UpperRun(t, i) \in 1..MaxTickerLen
    /\ (i + UpperRun(t, i) = Len(t) \/ ~IsWord(t[i + UpperRun(t, i) + 1]))

RECURSIVE TokensFrom(_, _)
TokensFrom(t, i) ==
    IF i > Len(t) THEN <<>>
    ELSE (IF TickerAt(t, i) THEN <<SubSeq(t, i + 1, i + UpperRun(t, i))>> ELSE <<>>)
         \o TokensFrom(t, i + 1)

(* C9: extract_tickers returns, in text order and once per occurrence, exactly
   the tokens of 1 to 5 uppercase letters that directly follow a $ and are
   followed by a word boundary; lowercase tokens and runs of more than 5
   letters yield nothing. *)
C9_ExtractExactly ==
    /\ found = TokensFrom(text, 1)
    /\ \A k \in 1..Len(found) :
          /\ Len(found[k]) \in 1..MaxTickerLen
          /\ \A j \in 1..Len(found[k]) : IsUpper(found[k][j])

(* A text with three $, one of them before a lowercase token, and the same
   ticker returned twice. *)
C9_Witness ==
    /\ Cardinality({i \in 1..Len(text) : text[i] = "$"}) = 3
    /\ \E i \in 1..Len(text) - 1 : text[i] = "$" /\ text[i + 1] = "a"
    /\ Len(found) = 2
    /\ found[1] = found[2]

-----------------------------------------------------------------------------
(* Properties of the aggregation engine (SpecAggregate) *)

Analyzed == apc = "analyzed"

(* Every ticker occurrence of the records, in scan order. *)
Occurrences(msgs) ==
    Flatten([i \in 1..Len(msgs) |-> extract_tickers(msgs[i].content)])

FirstSeen(occ, ticker) == MinOf({i \in 1..Len(occ) : occ[i] = ticker})

(* C3: analyze_messages of the empty sequence returns total_messages = 0,
   unique_authors = 0, no channels, no top tickers and no date_range. *)
C3_EmptyInput ==
    (Analyzed /\ messages = <<>>) =>
        /\ analysis.total_messages = 0
        /\ analysis.unique_authors = 0
        /\ analysis.channels = <<>>
        /\ analysis.top_tickers = <<>>
        /\ analysis.date_range = None

C3_Witness == Analyzed /\ messages = <<>>

(* C4: the counts of top_tickers sum to the number of ticker occurrences in
   the records' content, which is at least the number K of distinct tickers,
   and top_tickers has K keys. *)
C4_CountsSum ==
    Analyzed =>
        LET occ == Occurrences(messages)
            total == SumSeq(Values(analysis.top_tickers))
        IN /\ total = Len(occ)
           /\ total >= Cardinality(Range(occ))
           /\ Len(analysis.top_tickers) = Cardinality(Range(occ))
           /\ Range(Keys(analysis.top_tickers)) = Range(occ)

(* Two distinct tickers, one of them seen in two records. *)
C4_Witness ==
    /\ Analyzed
    /\ Len(analysis.top_tickers) = 2
    /\ SumSeq(Values(analysis.top_tickers)) > 2

(* C7: top_tickers is ordered by descending count, and tickers of equal count
   stand in the order in which the scan of the records first met them. *)
C7_RankingOrder ==
    Analyzed =>
        LET top == analysis.top_tickers
            occ == Occurrences(messages)
        IN \A i, j \in 1..Len(top) :
              i < j =>
                 /\ top[i][2] >= top[j][2]
                 /\ top[i][2] = top[j][2] =>
                       FirstSeen(occ, top[i][1]) < FirstSeen(occ, top[j][1])

(* A tie of two tickers, each counted twice, B met first. *)
C7_Witness ==
    /\ Analyzed
    /\ Len(messages) = 2
    /\ analysis.top_tickers = << <<(<<"B">>), 2>>, <<(<<"A">>), 2>> >>

Stamped(msgs) == {msgs[i].ts : i \in {k \in 1..Len(msgs) : msgs[k].ts # 0}}

(* C8 as stated: date_range is the earliest and latest timestamp of the
   records, and it is absent only for zero records. *)
C8_Original ==
    Analyzed =>
        /\ (analysis.date_range = None) <=> (messages = <<>>)
        /\ messages # <<>> =>
              /\ analysis.date_range # None
              /\ analysis.date_range.start = MinOf(Stamped(messages))
              /\ analysis.date_range.end = MaxOf(Stamped(messages))

(* C8 as amended: date_range is the earliest and latest timestamp among the
   records that carry one, and it is absent exactly when no record carries a
   timestamp, which includes the empty input. *)
C8_DateRange ==
    Analyzed =>
        /\ (analysis.date_range = None) <=> (Stamped(messages) = {})
        /\ Stamped(messages) # {} =>
              /\ analysis.date_range.start = MinOf(Stamped(messages))
              /\ analysis.date_range.end = MaxOf(Stamped(messages))
        /\ messages = <<>> => analysis.date_range = None

(* A later record with an earlier timestamp. *)
C8_Witness ==
    /\ Analyzed
    /\ Len(messages) = 2
    /\ messages[1].ts = 2
    /\ messages[2].ts = 1
    /\ analysis.date_range = [start |-> 1, end |-> 2]

(* C27: the per-channel message counts sum to total_messages, every
   channel has at least one author and at most as many as the whole day,
   and no channel counts a ticker more often than the whole day does. *)
C27_ChannelsConsistent ==
    Analyzed =>
        /\ SumSeq([i \in 1..Len(analysis.channels) |->
                      analysis.channels[i][2].messages]) = analysis.total_messages
        /\ \A i \in 1..Len(analysis.channels) :
              LET ch == analysis.channels[i][2]
              IN /\ ch.unique_authors >= 1
                 /\ ch.unique_authors <= analysis.unique_authors
                 /\ \A j \in 1..Len(ch.top_tickers) :
                       ch.top_tickers[j][2]
                           <= Get(analysis.top_tickers, ch.top_tickers[j][1], 0)

(* Two records in two channels that name the same ticker: the day counts
   it twice, each channel once *)
C27_Witness ==
    /\ Analyzed
    /\ Len(analysis.channels) = 2
    /\ \E i \in 1..Len(analysis.top_tickers) :
          /\ analysis.top_tickers[i][2] = 2
          /\ \A c \in 1..2 :
                <<analysis.top_tickers[i][1], 1>>
                    \in Range(analysis.channels[c][2].top_tickers)

-----------------------------------------------------------------------------
(* Properties of the repeated analysis pass (SpecRerun) *)

Reanalyzed == apc = "analyzed" /\ prev # None

Descending(top) == \A i, j \in 1..Len(top) : i < j => top[i][2] >= top[j][2]

(* C6 as stated: the second run over the unchanged day returns the
   aggregation result of the first, whatever the order of the partitions. *)
C6_Original == Reanalyzed => analysis = prev

(* C6 as amended: the two runs agree on total_messages, unique_authors and
   date_range, on the ticker -> count entries of top_tickers (ranked by
   descending count in both) and on the channel -> statistics entries, each
   channel's own ranking included; only the order of equal-count tickers
   and the order of the channels follow the order of the partitions. *)
C6_SameEntries ==
    Reanalyzed =>
        /\ analysis.total_messages = prev.total_messages
        /\ analysis.unique_authors = prev.unique_authors
        /\ analysis.date_range = prev.date_range
        /\ AsSet(analysis.top_tickers) = AsSet(prev.top_tickers)
        /\ Len(analysis.top_tickers) = Len(prev.top_tickers)
        /\ Descending(analysis.top_tickers) /\ Descending(prev.top_tickers)
        /\ AsSet(analysis.channels) = AsSet(prev.channels)
        /\ Len(analysis.channels) = Len(prev.channels)

(* Two runs that read two non-empty partitions in different orders. *)
C6_Witness ==
    /\ Reanalyzed
    /\ gcs["c1"] # <<>> /\ gcs["c2"] # <<>>
    /\ Keys(analysis.channels) # Keys(prev.channels)

-----------------------------------------------------------------------------
(* Properties of the store (SpecStore) *)

Stored == UNION {Range(files[k]) : k \in DOMAIN files}

(* C10: every persisted record has non-empty cleaned content, and an
   append_message call whose message is empty after cleanup writes nothing. *)
C10_NoEmptyContent ==
    /\ [](\A rec \in Stored : rec.content # <<>>)
    /\ [][(appends' = appends + 1 /\ _clean(last_m'.content) = <<>>)
             => (files' = files /\ dirs' = dirs)]_vars

(* A message of emoji, backticks and blanks was appended after a record had
   been stored, and the store holds that one record still. *)
C10_Witness ==
    /\ appends = 2
    /\ last_m.content # <<>>
    /\ _clean(last_m.content) = <<>>
    /\ Cardinality(Stored) = 1

(* C11: every record of the partition of a day and a channel carries a
   stored timestamp of that UTC day: the day of the partition directory and
   the day of the serialized ts are the same UTC date, whatever the zone of
   the creation time. *)
C11_SameUtcDay ==
    \A k \in DOMAIN files :
        \A i \in 1..Len(files[k]) : UtcDate(files[k][i].ts) = k[1]

(* C12: an append_message call with non-empty cleaned content adds exactly
   one line at the end of exactly one partition, that of the message's
   channel, and leaves every line written before as it was; a message
   ingested again is stored a second time. *)
C12_AppendOnly ==
    [][(appends' = appends + 1 /\ _clean(last_m'.content) # <<>>) =>
          \E k \in DOMAIN files :
              /\ k[2] = last_m'.channel
              /\ files'[k] = Append(files[k], RecordOf(last_m'))
              /\ \A j \in DOMAIN files \ {k} : files'[j] = files[j]]_vars

(* The same message was ingested twice and its partition holds two equal
   lines. *)
C12_Witness ==
    /\ appends = 2
    /\ \E k \in DOMAIN files :
          /\ Len(files[k]) = 2
          /\ files[k][1] = files[k][2]
          /\ files[k][2] = RecordOf(last_m)

-----------------------------------------------------------------------------
(* Properties of the normalizer (SpecClean) *)

(* C24: the cleaned content holds no character of the emoji range and no
   backtick, its only whitespace is single spaces between other characters,
   and it neither starts nor ends with whitespace. *)
C24_CleanedIsClean ==
    /\ \A i \in 1..Len(cleaned) : cleaned[i] \notin {"emoji", "bt", "\n"}
    /\ \A i \in 1..(Len(cleaned) - 1) : ~(cleaned[i] = " " /\ cleaned[i + 1] = " ")
    /\ cleaned # <<>> => (cleaned[1] # " " /\ cleaned[Len(cleaned)] # " ")

(* A text with an emoji or a backtick between two whitespace characters,
   of which the characters around them are left *)
C24_Witness ==
    /\ \E i \in 1..(Len(raw) - 2) :
          /\ raw[i] \in {" ", "\n"}
          /\ raw[i + 1] \in {"emoji", "bt"}
          /\ raw[i + 2] \in {" ", "\n"}
    /\ Len(cleaned) = 3

-----------------------------------------------------------------------------
(* Properties of the store under concurrent writers (SpecConcurrent) *)

(* What the write calls left in a file does not read as whole lines: a
   piece of a line stands without the rest of the same line right after it. *)
RECURSIVE Corrupt(_)
Corrupt(chunks) ==
    IF chunks = <<>> THEN FALSE
    ELSE IF Head(chunks).part = "line" THEN Corrupt(Tail(chunks))
    ELSE IF /\ Head(chunks).part = "head"
            /\ Len(chunks) >= 2
            /\ chunks[2] = [rec |-> Head(chunks).rec, part |-> "tail"]
         THEN Corrupt(Tail(Tail(chunks)))
    ELSE TRUE

(* C13: under concurrent append_message calls every partition reads as whole
   lines, each one complete record of the partition's channel, and a step
   changes one partition at most, that of the channel the stepping writer
   appends to, by adding at its end. *)
C13_NoInterleaving ==
    /\ [](\A k \in DOMAIN disk :
             /\ ~Corrupt(disk[k])
             /\ \A i \in 1..Len(disk[k]) :
                   /\ disk[k][i].rec.channel_id = k[2]
                   /\ disk[k][i].rec.content # <<>>)
    /\ [][\A k \in DOMAIN disk :
             \/ disk'[k] = disk[k]
             \/ \E w \in Writers :
                   /\ writers[w].target = k
                   /\ writers[w].pending # <<>>
                   /\ disk'[k] = Append(disk[k], Head(writers[w].pending))
                   /\ \A j \in DOMAIN disk \ {k} : disk'[j] = disk[j]]_vars

(* Both writers hold an unwritten line for the same partition, which has a
   line already. *)
C13_Witness ==
    \E k \in DOMAIN disk :
        /\ writers["w1"].target = k /\ writers["w1"].pending # <<>>
        /\ writers["w2"].target = k /\ writers["w2"].pending # <<>>
        /\ Len(disk[k]) >= 1

-----------------------------------------------------------------------------
(* Properties of the ingestion run (SpecIngest) *)

(* fetch_history_once has been left, by return or by an exception. *)
Exited == fpc \in {"returned", "raised"}

NothingToUpload == ~up_call.base_exists \/ PartitionFiles(files) = {}

(* C14: upload_all_days returns 0 and does not raise whenever the buffer
   directory is missing or holds no partition file, or the bucket is not
   configured, whatever the blob-store client does. *)
C14_NoOpWhenNothing ==
    (up_call.called /\ (NothingToUpload \/ ~env.bucket)) =>
        (~up_call.raised /\ up_call.ret = 0)

(* C15: one channel's failure, at fetch_channel or while its history is
   read, never ends the run: once fetch_history_once is over, fetch_channel
   was called for every configured channel, in order. *)
C15_EveryChannelVisited ==
    (Exited /\ fetched # <<>>) => fetched = ChannelIds

(* C16: on every exit path of fetch_history_once, a cancellation of the wait
   for readiness included, the client has been closed. *)
C16_ClosedOnExit == Exited => closed

(* C17: when upload_all_days raises, fetch_history_once returns without an
   exception, the client is closed, and the step that runs the upload
   leaves the partition files and their directories as they were. *)
C17_UploadFailureLogged ==
    /\ []((up_call.called /\ up_call.raised /\ ~up_call.cancelled) =>
             (fpc = "returned" /\ closed))
    /\ [][up_call' # up_call => (files' = files /\ dirs' = dirs)]_vars

(* The upload of a stored partition raised at the blob store. *)
C17_Witness ==
    /\ up_call.called /\ up_call.raised /\ ~up_call.cancelled
    /\ up_call.client_ok
    /\ PartitionFiles(files) # {}
    /\ fpc = "returned"

(* C18: in a run whose configuration lacks the token, the channel list or
   the bucket, the error is raised at startup and nothing touches the
   network. *)
C18_FatalBeforeNetwork ==
    (~env.token \/ ~env.channels \/ ~env.bucket) =>
        (fpc \in {"startup", "config_error"} /\ network = {})

(* C28: the channels are visited one at a time in the configured order,
   upload_all_days is called at most once and only when every configured
   channel has been visited, the client is closed only when the upload
   attempt is over, and nothing is stored once the upload has begun. *)
C28_UploadThenClose ==
    /\ [](\E n \in 0..Len(ChannelIds) : fetched = SubSeq(ChannelIds, 1, n))
    /\ [][Len(fetched') <= Len(fetched) + 1]_vars
    /\ [](up_call.called => fetched = load_settings(env).channel_ids)
    /\ [][up_call.called => (up_call' = up_call /\ files' = files)]_vars
    /\ [](closed => up_call.called)

-----------------------------------------------------------------------------
(* Properties of the document sink (SpecNotion) *)

(* C19: after create_summary_page calls that all returned, the database
   holds exactly one page that is not archived for every date a call was
   made for, also when the lookup raised or found several pages. *)
C19_OnePagePerDate ==
    (ncalls > 0 /\ nraised = 0) =>
        \A d \in Dates :
            (\E i \in 1..Len(pages) : pages[i].date = d) =>
                Cardinality(Matches(pages, d)) = 1

(* C25: when create_summary_page finds a page for the date it archives it
   and only then creates the new one: it either returns with the found page
   archived and a new page, or raises with nothing changed, or raises with
   the found page archived, no new page and no visible page for the date. *)
C25_ArchiveThenCreate ==
    [][(ncalls' = ncalls + 1 /\ nlast'.found # 0) =>
          LET f == nlast'.found
              d == nlast'.date
          IN \/ /\ ~nlast'.raised
                /\ Len(pages') = Len(pages) + 1
                /\ pages'[f].archived
                /\ pages'[Len(pages')] = [date |-> d, archived |-> FALSE]
             \/ /\ nlast'.raised
                /\ pages' = pages
             \/ /\ nlast'.raised
                /\ Len(pages') = Len(pages)
                /\ pages'[f].archived
                /\ Matches(pages', d) = {}]_vars

-----------------------------------------------------------------------------
(* Properties of process_and_save (SpecProcess) *)

(* The Gemini call of the run failed: initialisation or invocation raised,
   or the response text, fences stripped, is no JSON document. *)
OracleFailed ==
    \/ oracle.kind \in {"init_error", "call_error"}
    \/ oracle.kind = "response" /\ ~JsonLoads(StripFences(oracle.text)).ok

(* C1: whenever oracle initialisation, oracle invocation or the JSON parsing
   of the response fails, analyze_with_gemini returns a fallback result
   whose error marker is a non-empty string and whose ticker_analysis is the
   empty mapping. *)
C1_FallbackOnFailure ==
    OracleFailed =>
        /\ ai_analysis.type = "dict"
        /\ ai_analysis.has_error
        /\ ai_analysis.error # ""
        /\ ai_analysis.ticker_analysis = <<>>

Published == \A ext \in DOMAIN objects : objects[ext] # Absent

(* C2: with AI enabled and a non-empty day, whenever the oracle call fails
   or returns unparsable text, process_and_save goes on with the fallback
   result, publishes the .json, .md and .txt renderings and returns True
   (the bucket answering every call). *)
C2_PublishesOnFallback ==
    (apc = "returned" /\ use_ai /\ messages # <<>> /\ OracleFailed /\ exc # "gcs") =>
        /\ ai_analysis.type = "dict" /\ ai_analysis.has_error
        /\ ret = TRUE
        /\ Published

-----------------------------------------------------------------------------
(* Properties of the repeated publication (SpecPublish) *)

(* The three renderings a save_summary_to_gcs call makes of its arguments *)
SaveContent(call) ==
    [ext \in {"json", "md", "txt"} |->
        IF ext = "json" THEN JsonData(call.analysis, call.ai, call.now)
        ELSE IF ext = "md" THEN MarkdownFor(call.analysis, call.ai)
        ELSE TextFor(call.analysis, call.ai)]

SaveOver == last_save # None /\ last_save.done # "running"

(* C20 as stated: after any number of save_summary_to_gcs calls the objects
   of the date are the three renderings, each with the content of the
   latest call. *)
C20_Original == SaveOver => objects = SaveContent(last_save)

(* C20 as amended: after a call that returned, the objects of the date are
   the three renderings of that call; after a call that raised, every
   object holds either that call's rendering or what it held before the
   call. *)
C20_LatestReturned ==
    /\ (SaveOver /\ last_save.done = "returned") =>
          objects = SaveContent(last_save)
    /\ (SaveOver /\ last_save.done = "raised") =>
          \A ext \in DOMAIN objects :
              objects[ext] \in {last_save.before[ext], SaveContent(last_save)[ext]}

(* The second call returned and replaced all three renderings of the first,
   the Markdown one by a different text. *)
C20_Witness ==
    /\ runs = 1
    /\ SaveOver /\ last_save.done = "returned"
    /\ \A ext \in DOMAIN objects : last_save.before[ext] # Absent
    /\ last_save.before["md"] # objects["md"]

-----------------------------------------------------------------------------
(* Properties of the renderings (SpecRender) *)

AllRendered == apc = "rendered"

(* The lines of a rendering that carry one kind of content, in order *)
Sel(lines, tag) ==
    LET Test(l) == l[1] = tag IN SelectSeq(lines, Test)

(* The section a heading of either rendering stands for *)
Logical(title) ==
    CASE title \in {"EXECUTIVE SUMMARY", "Executive Summary"} -> "summary"
      [] title \in {"OVERVIEW", "Overview"} -> "overview"
      [] title \in {"TOP WATCHLIST", "Top Watchlist"} -> "watchlist"
      [] title \in {"TICKER ANALYSIS", "Ticker Analysis",
                    "Detailed Ticker Analysis"} -> "tickers"
      [] title \in {"KEY THEMES", "Key Themes"} -> "themes"
      [] title \in {"NOTABLE INSIGHTS", "Notable Insights"} -> "insights"
      [] title \in {"CHANNEL BREAKDOWN", "Channel Breakdown",
                    "Channel Activity"} -> "channels"
      [] OTHER -> title

Sections(lines) ==
    [i \in 1..Len(Sel(lines, "section")) |-> Logical(Sel(lines, "section")[i][2])]

(* C21: for the same aggregation and AI result the section document and the
   plain text have the same sections in the same order and list the same
   watchlist entries, the same tickers, the same key points and risks of
   every ticker and the same per-channel top tickers. *)
C21_SameSections ==
    (AllRendered /\ ai_analysis.type = "dict" /\ objects["txt"].ok /\ blocks.ok) =>
        LET t == objects["txt"].lines
            b == blocks.lines
        IN /\ Sections(t) = Sections(b)
           /\ \A tag \in {"watch", "ticker", "point", "risk", "channel_tickers"} :
                 Sel(t, tag) = Sel(b, tag)

(* C22: the watchlist section of the plain text lists the first min(5, n)
   entries of the AI result's watchlist, each as $TICKER, in the order of
   the watchlist. *)
C22_WatchlistOrder ==
    (AllRendered /\ ai_analysis.type = "dict" /\ ai_analysis.watchlist # <<>>) =>
        /\ objects["txt"].ok
        /\ LET shown == Sel(objects["txt"].lines, "watch")
               n == Len(ai_analysis.watchlist)
           IN /\ Len(shown) = IF n < 5 THEN n ELSE 5
              /\ \A i \in 1..Len(shown) :
                    shown[i] = <<"watch", <<"$">> \o ai_analysis.watchlist[i]>>

(* A watchlist of six distinct entries, of which five are shown *)
C22_Witness ==
    /\ AllRendered
    /\ ai_analysis.type = "dict"
    /\ Len(ai_analysis.watchlist) = 6
    /\ Len(Sel(objects["txt"].lines, "watch")) = 5

(* The channel whose part of the rendering line i belongs to *)
ChannelAt(lines, i, stats) ==
    LET heads == {j \in 1..i : lines[j][1] = "channel"}
    IN Get(stats.channels, lines[MaxOf(heads)][2], None)

(* Every number of a rendering is the one of the aggregation result. *)
NumbersFrom(lines, stats) ==
    \A i \in 1..Len(lines) :
        LET l == lines[i]
        IN /\ l[1] = "total_messages" => l[2] = stats.total_messages
           /\ l[1] = "unique_authors" => l[2] = stats.unique_authors
           /\ l[1] = "channels" => l[2] = Len(stats.channels)
           /\ l[1] = "ticker" => l[3] = Get(stats.top_tickers, l[2], 0)
           /\ l[1] = "top_ticker" => l[3] = Get(stats.top_tickers, l[2], 0)
           /\ l[1] = "channel_stats" =>
                 /\ l[2] = ChannelAt(lines, i, stats).messages
                 /\ l[3] = ChannelAt(lines, i, stats).unique_authors
           /\ l[1] = "channel_messages" => l[2] = ChannelAt(lines, i, stats).messages
           /\ l[1] = "channel_authors" =>
                 l[2] = ChannelAt(lines, i, stats).unique_authors
           /\ l[1] = "channel_tickers" =>
                 Range(l[2]) \subseteq Range(ChannelAt(lines, i, stats).top_tickers)
           /\ l[1] = "channel_ticker" =>
                 <<l[2], l[3]>> \in Range(ChannelAt(lines, i, stats).top_tickers)

(* C23: the message, author and channel counts, the mention count of every
   ticker and the message, author and ticker counts of every channel that
   the plain text, the Markdown and the section document show are those of
   basic_stats in the structured rendering. *)
C23_NumbersAgree ==
    AllRendered =>
        LET stats == objects["json"].basic_stats
        IN /\ objects["txt"].ok => NumbersFrom(objects["txt"].lines, stats)
           /\ objects["md"].ok => NumbersFrom(objects["md"].lines, stats)
           /\ blocks.ok => NumbersFrom(blocks.lines, stats)

(* Two channels, a ticker counted twice, all three renderings made *)
C23_Witness ==
    /\ AllRendered
    /\ objects["txt"].ok /\ objects["md"].ok /\ blocks.ok
    /\ Len(analysis.channels) = 2
    /\ \E i \in 1..Len(analysis.top_tickers) : analysis.top_tickers[i][2] = 2
    /\ ai_analysis.type = "dict"
    /\ ai_analysis.ticker_analysis # <<>>

(* C26: on every aggregation result of analyze_messages and every AI result
   of analyze_with_gemini the enhanced text renderer returns a text, and so
   does the enhanced Markdown renderer wherever it is called. *)
C26_RenderersTotal ==
    AllRendered =>
        /\ summary_text.ok
        /\ Truthy(ai_analysis) => objects["md"].ok

====
